---- MODULE Spec2Model ----
(***************************************************************************)
(* State-machine model of mindsdb's gmail handler                          *)
(* (mindsdb/integrations/handlers/gmail_handler/gmail_handler.py):         *)
(* GmailTable.select, GmailHandler.native_query, GmailHandler.connect,     *)
(* GmailHandler.check_connection, GmailHandler.call_gmail_api and          *)
(* GmailHandler.callback_get_details.                                      *)
(*                                                                         *)
(* The remote API (list requests, batched detail requests) is the          *)
(* environment: every response is drawn from a small set.  Each invocation *)
(* of select / native_query is a caller t; the statements of               *)
(* call_gmail_api that read or write the class attribute `data`, or that   *)
(* wait for the network, are separate steps, so that invocations can be    *)
(* interleaved.                                                            *)
(***************************************************************************)
EXTENDS Integers, Sequences, FiniteSets, TLC

(* ----------------------------- bounds ---------------------------------- *)
\* largest LIMIT / maxResults drawn as a small requested count
MaxCount == 2
\* largest number of items the remote puts in one list response
MaxPage == 2
\* list requests the remote answers per fetch; only the first MaxReq - 1
\* responses may carry a nextPageToken (the remote collection is finite)
MaxReq == 3
\* items the remote collection holds, i.e. serves to one fetch in all
MaxMail == 2
\* select / native_query invocations per behaviour
MaxCalls == 2
\* services one handler instance builds per behaviour
MaxBuilds == 2
\* check_connection calls on one handler instance per behaviour
MaxChecks == 2

(* ------------------------ program constants ---------------------------- *)
\* max_page_size = 500
max_page_size == 500

(* --------------------------- Python values ----------------------------- *)
\* None / an absent dict key is <<>>, a present value v is <<v>>
None == <<>>
Some(v) == <<v>>
Val(o) == o[1]

Min(a, b) == IF a < b THEN a ELSE b
Max(a, b) == IF a > b THEN a ELSE b

\* s[:k] for a list s and an integer k (negative k counts from the end)
PySliceTo(s, k) ==
    IF k >= 0 THEN SubSeq(s, 1, Min(k, Len(s)))
    ELSE SubSeq(s, 1, Max(Len(s) + k, 0))

(* ---------------------- strings as character lists --------------------- *)
Q == <<"q">>
LABEL_IDS == <<"l", "a", "b", "e", "l", "_", "i", "d", "s">>
INCLUDE_SPAM_TRASH ==
    <<"i", "n", "c", "l", "u", "d", "e", "_", "s", "p", "a", "m", "_",
      "t", "r", "a", "s", "h">>

\* str.split(sep) when merge = FALSE, re.split(sep + '+', s) when merge = TRUE:
\* the list of segments of s between separators
RECURSIVE SplitFrom(_, _, _, _, _)
SplitFrom(s, sep, merge, i, acc) ==
    IF i > Len(s) THEN acc
    ELSE IF s[i] = sep
         THEN IF merge /\ i > 1 /\ s[i - 1] = sep
              THEN SplitFrom(s, sep, merge, i + 1, acc)
              ELSE SplitFrom(s, sep, merge, i + 1, Append(acc, <<>>))
         ELSE SplitFrom(s, sep, merge, i + 1,
                        [acc EXCEPT ![Len(acc)] = Append(@, s[i])])

Split(s, sep, merge) == SplitFrom(s, sep, merge, 1, << <<>> >>)

Upper(c) ==
    CASE c = "i" -> "I" [] c = "s" -> "S" [] c = "t" -> "T" [] c = "l" -> "L"
      [] c = "q" -> "Q" [] OTHER -> c

\* str.title() of one lower-case word
Title(w) == IF w = <<>> THEN w ELSE <<Upper(w[1])>> \o Tail(w)

RECURSIVE Concat(_)
Concat(ss) == IF ss = <<>> THEN <<>> ELSE Head(ss) \o Concat(Tail(ss))

\* temp = re.split('_+', arg1); temp[0] + ''.join(x.title() for x in temp[1:])
CamelCase(arg1) ==
    LET temp == Split(arg1, "_", TRUE)
    IN  temp[1] \o Concat([i \in 1 .. Len(temp) - 1 |-> Title(temp[i + 1])])

(* ------------------------- column and header names --------------------- *)
ID == <<"i", "d">>
THREAD_ID == <<"t", "h", "r", "e", "a", "d", "I", "d">>
LABELS == <<"l", "a", "b", "e", "l", "s">>
BODY == <<"b", "o", "d", "y">>
CONTENT_TYPE == <<"c", "o", "n", "t", "e", "n", "t", "_", "t", "y", "p", "e">>
CONTENT_TRANSFER_ENCODING ==
    <<"c", "o", "n", "t", "e", "n", "t", "_", "t", "r", "a", "n", "s", "f",
      "e", "r", "_", "e", "n", "c", "o", "d", "i", "n", "g">>
DATE == <<"d", "a", "t", "e">>
DELIVERED_TO == <<"d", "e", "l", "i", "v", "e", "r", "e", "d", "_", "t", "o">>
FROM == <<"f", "r", "o", "m">>
MESSAGE_ID == <<"m", "e", "s", "s", "a", "g", "e", "_", "i", "d">>
MIME_VERSION == <<"m", "i", "m", "e", "_", "v", "e", "r", "s", "i", "o", "n">>
REPLY_TO == <<"r", "e", "p", "l", "y", "_", "t", "o">>
SUBJECT == <<"s", "u", "b", "j", "e", "c", "t">>
TO == <<"t", "o">>
X_FEEDBACK_ID ==
    <<"x", "_", "f", "e", "e", "d", "b", "a", "c", "k", "_", "i", "d">>

\* FILTERED_MESSAGE_HEADERS
FILTERED_MESSAGE_HEADERS ==
    <<CONTENT_TYPE, CONTENT_TRANSFER_ENCODING, DATE, DELIVERED_TO, FROM,
      MESSAGE_ID, MIME_VERSION, REPLY_TO, SUBJECT, TO, X_FEEDBACK_ID>>

Range(seq) == {seq[i] : i \in DOMAIN seq}

UpperCase ==
    <<"A", "B", "C", "D", "E", "F", "G", "H", "I", "J", "K", "L", "M", "N",
      "O", "P", "Q", "R", "S", "T", "U", "V", "W", "X", "Y", "Z">>
LowerCase ==
    <<"a", "b", "c", "d", "e", "f", "g", "h", "i", "j", "k", "l", "m", "n",
      "o", "p", "q", "r", "s", "t", "u", "v", "w", "x", "y", "z">>

\* the lower-case letter of every upper-case letter
LowerOf ==
    [c \in Range(UpperCase) |->
        LowerCase[CHOOSE i \in DOMAIN UpperCase : UpperCase[i] = c]]

\* str.lower()
LowerChar(c) == IF c \in DOMAIN LowerOf THEN LowerOf[c] ELSE c
Lower(str) == [i \in DOMAIN str |-> LowerChar(str[i])]

\* str.replace(old, new) for characters old and new
ReplaceChar(str, old, new) ==
    [i \in DOMAIN str |-> IF str[i] = old THEN new ELSE str[i]]

\* str.replace(old, "") for a character old
RemoveChar(str, old) == SelectSeq(str, LAMBDA c : c # old)

\* sep.join(strs)
RECURSIVE Join(_, _)
Join(sep, strs) ==
    IF strs = <<>> THEN <<>>
    ELSE IF Len(strs) = 1 THEN Head(strs)
    ELSE Head(strs) \o sep \o Join(sep, Tail(strs))

(* ------------------------- GmailTable.select --------------------------- *)
SupportedClauses == {Q, LABEL_IDS, INCLUDE_SPAM_TRASH}

\* faulty variant: the operator of a supported clause is not checked
RECURSIVE TranslateAnyOperator(_, _)
TranslateAnyOperator(conditions, filters) ==
    IF conditions = <<>> THEN [raised |-> None, filters |-> filters]
    ELSE LET c == Head(conditions)
         IN  IF c.op = "or"
             THEN [raised |-> Some("OR is not supported"), filters |-> filters]
             ELSE IF c.arg1 \in SupportedClauses
             THEN LET value == IF c.arg1 = LABEL_IDS
                               THEN Split(c.arg2, ",", FALSE)
                               ELSE c.arg2
                  IN  TranslateAnyOperator(Tail(conditions),
                          (CamelCase(c.arg1) :> value) @@ filters)
             ELSE [raised |-> Some("Unknown clause"), filters |-> filters]

\* the loop over the extracted conditions: the first offending condition
\* raises NotImplementedError, otherwise the filter parameters are returned
RECURSIVE Translate(_, _)
Translate(conditions, filters) ==
    IF conditions = <<>> THEN [raised |-> None, filters |-> filters]
    ELSE LET c == Head(conditions)
         IN  IF c.op = "or"
             THEN [raised |-> Some("OR is not supported"), filters |-> filters]
             ELSE IF c.arg1 \in SupportedClauses
             THEN IF c.op = "="
                  THEN LET value == IF c.arg1 = LABEL_IDS
                                    THEN Split(c.arg2, ",", FALSE)
                                    ELSE c.arg2
                       IN  Translate(Tail(conditions),
                                     (CamelCase(c.arg1) :> value) @@ filters)
                  ELSE [raised |-> Some("Unknown operator"), filters |-> filters]
             ELSE [raised |-> Some("Unknown clause"), filters |-> filters]

EmptyDict == [k \in {} |-> None]

(* --------------------- callback_get_details ---------------------------- *)
\* content of the payload: body data, or the parts' data each put in front
\* of what was collected so far; a payload without body data and without a
\* 'parts' key raises KeyError
\* faulty variant: the data of the parts in the order of the parts
RECURSIVE PartsContentInOrder(_, _)
PartsContentInOrder(parts, content) ==
    IF parts = <<>> THEN content
    ELSE PartsContentInOrder(Tail(parts),
             content \o (IF Head(parts) = None THEN <<>>
                         ELSE Val(Head(parts))))

RECURSIVE PartsContent(_, _)
PartsContent(parts, content) ==
    IF parts = <<>> THEN content
    ELSE PartsContent(Tail(parts),
                      (IF Head(parts) = None THEN <<>> ELSE Val(Head(parts)))
                          \o content)

PayloadContent(payload) ==
    IF payload.body # None
    THEN [raised |-> None, content |-> Val(payload.body)]
    ELSE IF payload.parts # None
         THEN [raised |-> None, content |-> PartsContent(Val(payload.parts), <<>>)]
         ELSE [raised |-> Some("KeyError"), content |-> <<>>]

\* base64.urlsafe_b64decode of a string of base64 letters without '=':
\* every four letters give three bytes (kept here as the group of four
\* letters), a length that is no multiple of four raises binascii.Error
UrlsafeB64decode(content) ==
    IF Len(content) % 4 # 0
    THEN [raised |-> Some("binascii.Error"), bytes |-> <<>>]
    ELSE [raised |-> None,
          bytes |-> [i \in 1 .. (Len(content) \div 4) |->
                        SubSeq(content, 4 * i - 3, 4 * i)]]

\* key = header['name'].lower().replace("-", "_").replace(" ", "")
HeaderKey(name) == RemoveChar(ReplaceChar(Lower(name), "-", "_"), " ")

\* the keys of FILTERED_MESSAGE_HEADERS
AllowList == Range(FILTERED_MESSAGE_HEADERS)

\* the loop over response['payload']['headers']: a header whose key is not
\* in FILTERED_MESSAGE_HEADERS is skipped, of two with one key the later stays
RECURSIVE NormalizeHeaders(_, _)
NormalizeHeaders(raw, headers) ==
    IF raw = <<>> THEN headers
    ELSE LET key == HeaderKey(Head(raw).name)
         IN  IF key \notin AllowList
             THEN NormalizeHeaders(Tail(raw), headers)
             ELSE NormalizeHeaders(Tail(raw),
                                   (key :> Head(raw).value) @@ headers)

\* ', '.join(response.get("labelIds", []))
JoinLabels(labelIds) ==
    Join(<<",", " ">>, IF labelIds = None THEN <<>> ELSE Val(labelIds))

\* the branch `exception is None` of callback_get_details on buffer buf:
\* the buffer afterwards, and the exception raised if any
RowFromResponse(buf, response) ==
    LET c == PayloadContent(response.payload)
        b == UrlsafeB64decode(c.content)
    IN  IF c.raised # None THEN [raised |-> c.raised, data |-> buf]
        ELSE IF b.raised # None THEN [raised |-> b.raised, data |-> buf]
        ELSE [raised |-> None,
              data |-> Append(buf,
                  [id |-> response.id, kind |-> "row", body |-> b.bytes,
                   labels |-> JoinLabels(response.labelIds),
                   threadId |-> response.threadId,
                   headers |-> NormalizeHeaders(response.payload.headers,
                                                EmptyDict)])]

\* faulty variant: the callback raises the exception it is handed
CallbackRaisesException(buf, response, exception) ==
    IF exception # None THEN [raised |-> exception, data |-> buf]
    ELSE RowFromResponse(buf, response)

\* callback_get_details(request_id, response, exception) on buffer buf:
\* an item whose detail request failed is skipped
CallbackGetDetails(buf, response, exception) ==
    IF exception # None THEN [raised |-> None, data |-> buf]
    ELSE RowFromResponse(buf, response)

(* ----------------------- call_gmail_api pieces ------------------------- *)
\* left = count_results - len(self.__class__.data)
\* faulty variant: the rows already in the buffer are not counted
RemainingIgnoresBuffer(count_results, buf) == count_results

Remaining(count_results, buf) == count_results - Len(buf)

\* faulty variant: the page size is not capped
PageSizeUncapped(left) == left

\* params["maxResults"]: max_page_size if left > max_page_size else left
PageSize(left) == IF left > max_page_size THEN max_page_size ELSE left

\* faulty variant: the page is used as the remote sent it
LimitOutputKeepsAll(results, left) == results

\* faulty variant: the last `left` items of the page are kept
LimitOutputKeepsTail(results, left) ==
    IF left # None
    THEN SubSeq(results, Max(Len(results) - Val(left), 0) + 1, Len(results))
    ELSE results

\* results = results[:left] if left is not None
LimitOutput(results, left) ==
    IF left # None THEN PySliceTo(results, Val(left)) ELSE results

\* faulty variant: the token is followed without a requested count too
HasNextPageWithoutCount(count_results, resp) == resp.tok # None

\* faulty variant: the loop goes on although the response has no token
HasNextPageWithoutToken(count_results, resp) == count_results # None

\* count_results is not None and "nextPageToken" in resp
HasNextPage(count_results, resp) == count_results # None /\ resp.tok # None

(* ------------------------------- state --------------------------------- *)
\* callers (one select / native_query invocation at a time each) and
\* GmailHandler instances
Threads == 1 .. 2
Handlers == 1 .. 2
\* callers of check_connection or of connect (one call at a time each)
Checkers == 1 .. 2

VARIABLES
    data,           \* GmailHandler.data, the class attribute (result buffer)
    is_connected,   \* self.is_connected of each handler instance
    pc,             \* where each caller is
    inst,           \* the handler instance (self) of the caller's invocation
    method,         \* method_name
    query,          \* the conditions of the caller's select (None: native_query)
    params,         \* the params dict
    count_results,  \* count_results
    left,           \* left
    sliced,         \* the value of self.__class__.data[:left], None until
                    \* it is computed
    resp,           \* the last list response
    results,        \* results (the page's items after `limit output`)
    outcomes,       \* what each detail callback of the current batch did
    frame,          \* the DataFrame call_gmail_api returned, None before
    err,            \* the exception that left the invocation, None if none
    call,           \* number of the caller's invocation (names its messages)
    ncalls,         \* invocations started so far
    log,            \* history: the list requests of the invocation
    mine,           \* history: the rows the invocation itself put in data
    disturbed,      \* history: another invocation changed data meanwhile
    stale,          \* history: what the buffer held when the invocation began
    service,        \* self.service of each handler instance (0: None, n: the
                    \* n-th service the instance built)
    status,         \* what the last check_connection of each instance gave
    checking,       \* where each caller of check_connection / connect is
    targets,        \* query.targets of the caller's select, None before
    output          \* the frame the caller's select returned, None before

locals == <<pc, inst, method, query, params, count_results, left, sliced,
            resp, results, outcomes, frame, err, call, log, mine, stale>>
connection == <<service, status, checking>>
projection == <<targets, output>>
vars == <<data, is_connected, ncalls, disturbed, locals, connection,
          projection>>

NoParams == [filters |-> EmptyDict, maxResults |-> None, pageToken |-> None,
             userId |-> None]
NoResp == [n |-> 0, tok |-> None]
\* a caller of check_connection / connect that is in neither
NoCheck == [pc |-> "idle", inst |-> 1, op |-> "none"]

\* a select whose frame call_gmail_api has returned and whose targets are
\* still to be looked at
Pending(t) == pc[t] = "done" /\ query[t] # None /\ targets[t] = None

\* the caller has no invocation going on
Idle(t) == IF Pending(t) THEN FALSE ELSE pc[t] \in {"idle", "done", "raised"}
InFlight(t) == ~Idle(t)

\* the same start for every specification
Init ==
    /\ data = <<>>
    /\ is_connected = [h \in Handlers |-> FALSE]
    /\ pc = [t \in Threads |-> "idle"]
    /\ inst = [t \in Threads |-> 1]
    /\ method = [t \in Threads |-> "messages"]
    /\ query = [t \in Threads |-> None]
    /\ params = [t \in Threads |-> NoParams]
    /\ count_results = [t \in Threads |-> None]
    /\ left = [t \in Threads |-> None]
    /\ sliced = [t \in Threads |-> None]
    /\ resp = [t \in Threads |-> NoResp]
    /\ results = [t \in Threads |-> <<>>]
    /\ outcomes = [t \in Threads |-> <<>>]
    /\ frame = [t \in Threads |-> None]
    /\ err = [t \in Threads |-> None]
    /\ call = [t \in Threads |-> 0]
    /\ ncalls = 0
    /\ log = [t \in Threads |-> <<>>]
    /\ mine = [t \in Threads |-> <<>>]
    /\ disturbed = [t \in Threads |-> FALSE]
    /\ stale = [t \in Threads |-> "other"]
    /\ service = [h \in Handlers |-> 0]
    /\ status = [h \in Handlers |-> None]
    /\ checking = [c \in Checkers |-> NoCheck]
    /\ targets = [t \in Threads |-> None]
    /\ output = [t \in Threads |-> None]

\* history: the buffer as caller t finds it on entry: "aborted" when it
\* holds the rows of a fetch that an exception ended, "other" otherwise
Found(t) ==
    IF /\ data # <<>>
       /\ \A u \in Threads : Idle(u)
       /\ \E u \in Threads :
              /\ pc[u] = "raised" /\ call[u] = ncalls
              /\ targets[u] = None /\ mine[u] # <<>>
    THEN "aborted" ELSE "other"

\* history: caller t makes the buffer newdata; the other callers in flight
\* see their buffer changed under them
DisturbedBy(t, newdata) ==
    [u \in Threads |->
        IF u # t /\ InFlight(u) /\ newdata # data THEN TRUE ELSE disturbed[u]]

\* faulty variant: the buffer is not emptied when a fetch begins
ResetDataKeepsRows == data

\* self.__class__.data = []
ResetData == <<>>

(* ------------------------------ the remote ----------------------------- *)
\* the items of the k-th list response to invocation c, n items long
Items(c, k, n) ==
    [i \in 1 .. n |-> [id |-> <<c, k, i>>, kind |-> "item", body |-> <<>>]]

\* items the remote has served to the invocation so far
RECURSIVE Served(_)
Served(l) == IF l = <<>> THEN 0 ELSE Head(l).n + Served(Tail(l))

\* payloads of the detail responses: body data; two parts; body data of a
\* length base64 rejects; neither body data nor parts
Payloads ==
    { [body |-> Some(<<"Q", "U", "J", "D">>), parts |-> None],
      [body |-> None,
       parts |-> Some(<<Some(<<"J", "D">>), Some(<<"Q", "U">>)>>)],
      [body |-> Some(<<"Q", "U", "J">>), parts |-> None],
      [body |-> None, parts |-> None] }

\* what the batch hands the callback for one item: an exception, or a
\* response with one of the payloads
Details ==
    {[exception |-> Some("HttpError"), payload |-> None]}
        \cup {[exception |-> None, payload |-> Some(p)] : p \in Payloads}

\* thread ids, label ids, header names as the remote spells them, header
\* values and base64 data of the stored messages
T1 == <<"t", "1">>
T2 == <<"t", "2">>
T3 == <<"t", "3">>
L1 == <<"I", "N">>
L2 == <<"U", "P">>
H_TO == <<"T", "o">>
H_SUBJECT == <<"S", "u", "b", "j", "e", "c", "t">>
H_X_MAILER == <<"X", "-", "M", "a", "i", "l", "e", "r">>
H_REPLY_TO == <<"R", "e", "p", "l", "y", "-", "T", "o">>
H_MESSAGE_ID == <<"M", "e", "s", "s", "a", "g", "e", "-", "I", "D">>
H_DATE == <<"D", "A", "T", "E">>
H_FROM == <<"F", "r", "o", "m">>
V1 == <<"u">>
V2 == <<"v">>
V3 == <<"w">>
D1 == <<"Q", "U", "J", "D">>
D2 == <<"R", "U", "Z", "H">>
D3 == <<"S", "U", "p", "L">>
D1A == <<"Q", "U">>
D1B == <<"J", "D">>

\* history: what the callback was handed for an item
Handed(d) == IF d.exception # None THEN "exception" ELSE "response"

\* a raw header of a message
Header(name, value) == [name |-> name, value |-> value]

\* the messages the remote holds: thread id, label ids (None: the key is
\* absent), raw headers, and the body data and parts of the payload
Mailbox ==
    << [threadId |-> T1, labelIds |-> Some(<<L1, L2>>),
        headers |-> <<Header(H_TO, V1), Header(H_SUBJECT, V2),
                      Header(H_X_MAILER, V3)>>,
        body |-> Some(D1), parts |-> None],
       [threadId |-> T2, labelIds |-> None,
        headers |-> <<Header(H_TO, V1), Header(H_REPLY_TO, V2),
                      Header(H_TO, V3)>>,
        body |-> Some(D1), parts |-> Some(<<Some(D2)>>)],
       [threadId |-> T3, labelIds |-> Some(<<L1>>),
        headers |-> <<>>,
        body |-> None, parts |-> Some(<<Some(D1A), Some(D1B)>>)],
       [threadId |-> T1, labelIds |-> Some(<<L2>>),
        headers |-> <<Header(H_MESSAGE_ID, V1), Header(H_DATE, V2)>>,
        body |-> None, parts |-> Some(<<Some(D1), None, Some(D2)>>)],
       [threadId |-> T2, labelIds |-> Some(<<>>),
        headers |-> <<Header(H_SUBJECT, V3)>>,
        body |-> None, parts |-> Some(<<Some(D1), Some(D2), Some(D3)>>)],
       [threadId |-> T3, labelIds |-> Some(<<L2, L1>>),
        headers |-> <<Header(H_FROM, V2)>>,
        body |-> None, parts |-> Some(<<>>)] >>

\* the message the remote holds under an id: the item's place in its page
\* and the page's number decide which
Stored(id) ==
    Mailbox[(((id[2] - 1) * MaxPage + id[3] - 1) % Len(Mailbox)) + 1]

\* the payload of the stored message
StoredPayload(id) == [body |-> Stored(id).body, parts |-> Stored(id).parts]

\* what the batch hands the callback for the item when the remote answers
\* the detail request with the stored message, or fails with exception
Delivered(id, exception) ==
    [exception |-> exception,
     payload |-> IF exception = None THEN Some(StoredPayload(id)) ELSE None]

(* ------------------------------ connect -------------------------------- *)
\* self.is_connected = True
Connect(h) == [is_connected EXCEPT ![h] = TRUE]

\* self.service = build("gmail", "v1", credentials=creds): a new service
NewService(h) == [service EXCEPT ![h] = @ + 1]

\* the services one instance builds are bounded: a caller may start an
\* operation on the instance if it is connected or may build another service
CanConnect(h) == IF is_connected[h] THEN TRUE ELSE service[h] < MaxBuilds

(* ----------------- check_connection, connect called alone -------------- *)
\* what service.users().getProfile(userId="me").execute() does: it returns,
\* raises HttpError, or raises another exception (an expired or revoked
\* token makes the credentials raise google.auth's RefreshError)
ProfileOutcomes == {"ok", "HttpError", "RefreshError"}

\* what Credentials(...) or build(...) raises when connect cannot build the
\* service: an HttpError (the discovery request failed) or something else
\* (a connection argument Credentials does not take)
BuildErrors == {"HttpError", "TypeError"}

\* if response.success is False and self.is_connected is True:
\*     self.is_connected = False
AfterCheck(connected, success) ==
    IF success = FALSE /\ connected = TRUE THEN FALSE ELSE connected

\* history: number of the check_connection calls on instance h that have
\* ended so far
Checks(h) == IF status[h] = None THEN 0 ELSE Val(status[h]).n

\* check_connection calls on instance h that have begun and not ended
Checking(h) ==
    Cardinality({c \in Checkers :
                    /\ checking[c].op = "check_connection"
                    /\ checking[c].inst = h})

\* history: what a check_connection on instance h gave: the response it
\* returned, or the exception that left it
Checked(h, step, outcome) ==
    IF outcome \in {"ok", "HttpError"}
    THEN [n |-> Checks(h) + 1, step |-> step, profile |-> outcome,
          returned |-> TRUE, success |-> (outcome = "ok"),
          error_message |-> IF outcome = "ok" THEN None
                            ELSE Some("Error connecting to GMail api"),
          raised |-> None]
    ELSE [n |-> Checks(h) + 1, step |-> step, profile |-> outcome,
          returned |-> FALSE, success |-> FALSE, error_message |-> None,
          raised |-> Some(outcome)]

\* check_connection is called on instance h: response = StatusResponse(False)
\* and, inside the try, the call of connect
CheckConnection(c, h) ==
    /\ checking[c] = NoCheck
    /\ Checks(h) + Checking(h) < MaxChecks
    /\ checking' = [checking EXCEPT
                       ![c] = [pc |-> "connect", inst |-> h,
                               op |-> "check_connection"]]
    /\ UNCHANGED <<data, is_connected, ncalls, disturbed, locals, service,
                   status, projection>>

\* connect is called on instance h by itself
CallConnect(c, h) ==
    /\ checking[c] = NoCheck
    /\ CanConnect(h)
    /\ checking' = [checking EXCEPT
                       ![c] = [pc |-> "connect", inst |-> h,
                               op |-> "connect"]]
    /\ UNCHANGED <<data, is_connected, ncalls, disturbed, locals, service,
                   status, projection>>

\* where the caller of connect goes on when connect has returned the
\* service: check_connection to the profile request, a caller of connect
\* alone is done
Connected(c) ==
    IF checking[c].op = "check_connection"
    THEN [checking EXCEPT ![c].pc = "profile"]
    ELSE [checking EXCEPT ![c] = NoCheck]

\* connect, first statement, in check_connection or called alone: if
\* self.is_connected is True, connect returns self.service
CheckerTest(c) ==
    /\ checking[c].pc = "connect"
    /\ checking' = IF is_connected[checking[c].inst] THEN Connected(c)
                   ELSE [checking EXCEPT ![c].pc = "build"]
    /\ UNCHANGED <<data, is_connected, ncalls, disturbed, locals, service,
                   status, projection>>

\* connect, after the test found the instance not connected: the service is
\* built and assigned and is_connected becomes True
CheckerBuild(c) ==
    /\ checking[c].pc = "build"
    /\ service[checking[c].inst] < MaxBuilds
    /\ service' = NewService(checking[c].inst)
    /\ is_connected' = Connect(checking[c].inst)
    /\ checking' = Connected(c)
    /\ UNCHANGED <<data, ncalls, disturbed, locals, status, projection>>

\* the end of check_connection after an HttpError was caught or the profile
\* came: the instance is disconnected if the check failed and is connected
\* now, and the response is returned
Verdict(c, step, outcome) ==
    LET h == checking[c].inst
    IN  /\ is_connected' =
               [is_connected EXCEPT ![h] = AfterCheck(@, outcome = "ok")]
        /\ status' = [status EXCEPT ![h] = Some(Checked(h, step, outcome))]
        /\ checking' = [checking EXCEPT ![c] = NoCheck]

\* an exception other than HttpError leaves check_connection: the lines
\* after the try block do not run
Escapes(c, step, exception) ==
    LET h == checking[c].inst
    IN  /\ status' = [status EXCEPT ![h] = Some(Checked(h, step, exception))]
        /\ checking' = [checking EXCEPT ![c] = NoCheck]
        /\ UNCHANGED is_connected

\* Credentials(...) or build(...) raises: nothing is assigned; the exception
\* leaves connect, and in check_connection an HttpError is caught like one
\* of the profile request
CheckerBuildError(c, exception) ==
    /\ checking[c].pc = "build"
    /\ IF checking[c].op = "connect"
       THEN /\ checking' = [checking EXCEPT ![c] = NoCheck]
            /\ UNCHANGED <<is_connected, status>>
       ELSE IF exception = "HttpError"
       THEN Verdict(c, "build", exception)
       ELSE Escapes(c, "build", exception)
    /\ UNCHANGED <<data, ncalls, disturbed, locals, service, projection>>

\* service.users().getProfile(userId="me").execute() comes back: with the
\* profile (response.success = True), with an HttpError, which is caught,
\* or with another exception
GetProfile(c, outcome) ==
    /\ checking[c].pc = "profile"
    /\ IF outcome \in {"ok", "HttpError"}
       THEN Verdict(c, "getProfile", outcome)
       ELSE Escapes(c, "getProfile", outcome)
    /\ UNCHANGED <<data, ncalls, disturbed, locals, service, projection>>

(* -------------------------- call_gmail_api ----------------------------- *)
\* call_gmail_api is called: its arguments are bound and it calls connect
CallGmailApi(t, h, method_name, ps, conditions) ==
    /\ CanConnect(h)
    /\ targets' = [targets EXCEPT ![t] = None]
    /\ output' = [output EXCEPT ![t] = None]
    /\ pc' = [pc EXCEPT ![t] = "connect"]
    /\ inst' = [inst EXCEPT ![t] = h]
    /\ method' = [method EXCEPT ![t] = method_name]
    /\ query' = [query EXCEPT ![t] = conditions]
    /\ params' = [params EXCEPT ![t] = ps]
    /\ count_results' = [count_results EXCEPT ![t] = None]
    /\ left' = [left EXCEPT ![t] = None]
    /\ sliced' = [sliced EXCEPT ![t] = None]
    /\ resp' = [resp EXCEPT ![t] = NoResp]
    /\ results' = [results EXCEPT ![t] = <<>>]
    /\ outcomes' = [outcomes EXCEPT ![t] = <<>>]
    /\ frame' = [frame EXCEPT ![t] = None]
    /\ err' = [err EXCEPT ![t] = None]
    /\ call' = [call EXCEPT ![t] = ncalls + 1]
    /\ ncalls' = ncalls + 1
    /\ log' = [log EXCEPT ![t] = <<>>]
    /\ mine' = [mine EXCEPT ![t] = <<>>]
    /\ stale' = [stale EXCEPT ![t] = Found(t)]
    /\ UNCHANGED <<data, is_connected, disturbed, connection>>

\* faulty variant: the buffer is emptied when an exception leaves the invocation
PropagateRevertsBuffer(t, exception) ==
    /\ pc' = [pc EXCEPT ![t] = "raised"]
    /\ err' = [err EXCEPT ![t] = Some(exception)]
    /\ frame' = [frame EXCEPT ![t] = None]
    /\ data' = <<>>
    /\ UNCHANGED <<is_connected, disturbed, connection>>

\* an exception leaves the invocation: nothing is returned, the buffer and
\* the connection stay as they are
Propagate(t, exception) ==
    /\ pc' = [pc EXCEPT ![t] = "raised"]
    /\ err' = [err EXCEPT ![t] = Some(exception)]
    /\ frame' = [frame EXCEPT ![t] = None]
    /\ UNCHANGED <<data, is_connected, disturbed, connection>>

\* select: the conditions are translated first; a rejected query raises
\* before call_gmail_api is entered
Select(t, h, conditions, limit) ==
    /\ Idle(t)
    /\ ncalls < MaxCalls
    /\ LET tr == Translate(conditions, EmptyDict)
       IN  IF tr.raised # None
           THEN /\ Propagate(t, Val(tr.raised))
                /\ inst' = [inst EXCEPT ![t] = h]
                /\ method' = [method EXCEPT ![t] = "messages"]
                /\ query' = [query EXCEPT ![t] = Some(conditions)]
                /\ params' = [params EXCEPT ![t] = NoParams]
                /\ count_results' = [count_results EXCEPT ![t] = None]
                /\ left' = [left EXCEPT ![t] = None]
                /\ sliced' = [sliced EXCEPT ![t] = None]
                /\ resp' = [resp EXCEPT ![t] = NoResp]
                /\ results' = [results EXCEPT ![t] = <<>>]
                /\ outcomes' = [outcomes EXCEPT ![t] = <<>>]
                /\ call' = [call EXCEPT ![t] = ncalls + 1]
                /\ ncalls' = ncalls + 1
                /\ log' = [log EXCEPT ![t] = <<>>]
                /\ mine' = [mine EXCEPT ![t] = <<>>]
                /\ stale' = [stale EXCEPT ![t] = Found(t)]
                /\ targets' = [targets EXCEPT ![t] = None]
                /\ output' = [output EXCEPT ![t] = None]
           ELSE CallGmailApi(t, h, "messages",
                             [NoParams EXCEPT !.filters = tr.filters,
                                              !.maxResults = limit],
                             Some(conditions))

\* native_query: the parsed method name and parameters go to call_gmail_api
NativeQuery(t, h, method_name, maxResults) ==
    /\ Idle(t)
    /\ ncalls < MaxCalls
    /\ CallGmailApi(t, h, method_name,
                    [NoParams EXCEPT !.maxResults = maxResults], None)

\* connect, first statement: if self.is_connected is True, connect returns
\* self.service; the test and the assignments that follow it are separate
\* steps, and nothing keeps another caller of the instance from running
\* between them
ConnectTest(t) ==
    /\ pc[t] = "connect"
    /\ pc' = [pc EXCEPT ![t] =
                 IF is_connected[inst[t]] THEN "reset" ELSE "build"]
    /\ UNCHANGED <<data, is_connected, ncalls, disturbed, inst, method, query,
                   params, count_results, left, sliced, resp, results,
                   outcomes, frame, err, call, log, mine, stale, connection,
                   projection>>

\* connect, after the test found the instance not connected: the service is
\* built and assigned and is_connected becomes True, whatever another caller
\* has done to either since the test
Build(t) ==
    /\ pc[t] = "build"
    /\ service[inst[t]] < MaxBuilds
    /\ service' = NewService(inst[t])
    /\ is_connected' = Connect(inst[t])
    /\ pc' = [pc EXCEPT ![t] = "reset"]
    /\ UNCHANGED <<data, ncalls, disturbed, inst, method, query, params,
                   count_results, left, sliced, resp, results, outcomes,
                   frame, err, call, log, mine, stale, status, checking,
                   projection>>

\* Credentials(...) or build(...) raises: the exception leaves connect and
\* call_gmail_api before anything is assigned and before the buffer is reset
BuildError(t, exception) ==
    /\ pc[t] = "build"
    /\ Propagate(t, exception)
    /\ UNCHANGED <<ncalls, inst, method, query, params, count_results, left,
                   sliced, resp, results, outcomes, call, log, mine, stale,
                   projection>>

\* after connect, up to the loop: userId, count_results, reset of the buffer
Reset(t) ==
    /\ pc[t] = "reset"
    /\ params' = [params EXCEPT ![t].userId = Some("me")]
    /\ count_results' = [count_results EXCEPT ![t] = params[t].maxResults]
    /\ left' = [left EXCEPT ![t] = None]
    /\ data' = ResetData
    /\ disturbed' = [DisturbedBy(t, ResetData) EXCEPT ![t] = FALSE]
    /\ pc' = [pc EXCEPT ![t] = "head"]
    /\ UNCHANGED <<is_connected, ncalls, inst, method, query, sliced, resp,
                   results, outcomes, frame, err, call, log, mine, stale,
                   connection, projection>>

\* head of the loop, `left = count_results - len(self.__class__.data)` and
\* the branches on left: stop when the count is reached, go on to cut the
\* buffer when it is exceeded, otherwise set the page size
ReadLeft(t) ==
    /\ IF count_results[t] # None
       THEN LET l == Remaining(Val(count_results[t]), data)
            IN  /\ left' = [left EXCEPT ![t] = Some(l)]
                /\ IF l = 0
                   THEN /\ pc' = [pc EXCEPT ![t] = "ret"]
                        /\ UNCHANGED params
                   ELSE IF l < 0
                   THEN /\ pc' = [pc EXCEPT ![t] = "slice"]
                        /\ UNCHANGED params
                   ELSE /\ params' = [params EXCEPT ![t].maxResults =
                                          Some(PageSize(l))]
                        /\ pc' = [pc EXCEPT ![t] = "list"]
       ELSE /\ pc' = [pc EXCEPT ![t] = "list"]
            /\ UNCHANGED <<left, params>>
    /\ UNCHANGED <<data, disturbed, sliced>>

\* right-hand side of `self.__class__.data = self.__class__.data[:left]`:
\* the buffer as it is now is cut with the left computed before
SliceData(t) ==
    /\ sliced' = [sliced EXCEPT ![t] = Some(PySliceTo(data, Val(left[t])))]
    /\ pc' = [pc EXCEPT ![t] = "store"]
    /\ UNCHANGED <<data, disturbed, left, params>>

\* the assignment of `self.__class__.data = self.__class__.data[:left]`;
\* break
StoreSlice(t) ==
    /\ data' = Val(sliced[t])
    /\ disturbed' = DisturbedBy(t, Val(sliced[t]))
    /\ pc' = [pc EXCEPT ![t] = "ret"]
    /\ UNCHANGED <<left, sliced, params>>

\* the head of the loop, one access to the buffer at a time: the length is
\* read, then the buffer is read and cut, then the cut buffer is assigned
LoopHead(t) ==
    /\ pc[t] \in {"head", "slice", "store"}
    /\ CASE pc[t] = "head" -> ReadLeft(t)
         [] pc[t] = "slice" -> SliceData(t)
         [] pc[t] = "store" -> StoreSlice(t)
    /\ UNCHANGED <<is_connected, ncalls, inst, method, query, count_results,
                   resp, results, outcomes, frame, err, call, log, mine, stale,
                   connection, projection>>

\* method().list(**params).execute() answers with n items and, if tok, a
\* nextPageToken; the page is cut to left; a page of messages goes to the
\* batch, anything else is put in the buffer as it is
ListRequest(t, n, tok) ==
    /\ pc[t] = "list"
    /\ Len(log[t]) < MaxReq
    /\ tok => Len(log[t]) + 1 < MaxReq
    /\ Served(log[t]) + n <= MaxMail
    /\ LET k == Len(log[t]) + 1
           r == [n |-> n, tok |-> IF tok THEN Some(k) ELSE None]
           page == LimitOutput(Items(call[t], k, n), left[t])
       IN  /\ resp' = [resp EXCEPT ![t] = r]
           /\ results' = [results EXCEPT ![t] = page]
           /\ outcomes' = [outcomes EXCEPT ![t] = <<>>]
           /\ log' = [log EXCEPT ![t] =
                         Append(@, [params |-> params[t], raised |-> FALSE,
                                    n |-> n, tok |-> r.tok])]
           /\ IF page # <<>> /\ method[t] = "messages"
              THEN /\ pc' = [pc EXCEPT ![t] = "batch"]
                   /\ UNCHANGED <<data, disturbed, mine>>
              ELSE /\ data' = data \o page
                   /\ disturbed' = DisturbedBy(t, data \o page)
                   /\ mine' = [mine EXCEPT ![t] = @ \o page]
                   /\ pc' = [pc EXCEPT ![t] = "next"]
    /\ UNCHANGED <<is_connected, ncalls, inst, method, query, params,
                   count_results, left, sliced, frame, err, call, stale,
                   connection, projection>>

\* the list request fails (HttpError, transport error)
ListError(t) ==
    /\ pc[t] = "list"
    /\ Len(log[t]) < MaxReq
    /\ log' = [log EXCEPT ![t] =
                  Append(@, [params |-> params[t], raised |-> TRUE,
                             n |-> 0, tok |-> None])]
    /\ Propagate(t, "HttpError")
    /\ UNCHANGED <<ncalls, inst, method, query, params, count_results, left,
                   sliced, resp, results, outcomes, call, mine, stale,
                   projection>>

\* batch.execute() fails as a whole, before any callback has run
BatchError(t) ==
    /\ pc[t] = "batch"
    /\ outcomes[t] = <<>>
    /\ Propagate(t, "HttpError")
    /\ UNCHANGED <<ncalls, inst, method, query, params, count_results, left,
                   sliced, resp, results, outcomes, call, log, mine, stale,
                   projection>>

\* batch.execute() runs the callback of the next item of the page with the
\* detail d the remote gave for it; an exception raised inside the callback
\* leaves batch.execute() and call_gmail_api
Callback(t, d) ==
    /\ pc[t] = "batch"
    /\ LET item == results[t][Len(outcomes[t]) + 1]
           response ==
               IF d.payload = None THEN None
               ELSE [id |-> item.id,
                     threadId |-> Stored(item.id).threadId,
                     labelIds |-> Stored(item.id).labelIds,
                     payload |-> [headers |-> Stored(item.id).headers,
                                  body |-> Val(d.payload).body,
                                  parts |-> Val(d.payload).parts]]
           r == CallbackGetDetails(data, response, d.exception)
       IN  IF r.raised # None
           THEN /\ Propagate(t, Val(r.raised))
                /\ outcomes' = [outcomes EXCEPT ![t] = Append(@, Handed(d))]
                /\ UNCHANGED mine
           ELSE /\ data' = r.data
                /\ disturbed' = DisturbedBy(t, r.data)
                /\ mine' = [mine EXCEPT ![t] =
                               IF Len(r.data) > Len(data)
                               THEN Append(@, r.data[Len(r.data)]) ELSE @]
                /\ outcomes' = [outcomes EXCEPT ![t] = Append(@, Handed(d))]
                /\ pc' = [pc EXCEPT ![t] =
                             IF Len(outcomes[t]) + 1 = Len(results[t])
                             THEN "next" ELSE "batch"]
                /\ UNCHANGED <<is_connected, frame, err, connection>>
    /\ UNCHANGED <<ncalls, inst, method, query, params, count_results, left,
                   sliced, resp, results, call, log, stale, projection>>

\* next page ?
NextPage(t) ==
    /\ pc[t] = "next"
    /\ IF HasNextPage(count_results[t], resp[t])
       THEN /\ params' = [params EXCEPT ![t].pageToken = resp[t].tok]
            /\ pc' = [pc EXCEPT ![t] = "head"]
       ELSE /\ pc' = [pc EXCEPT ![t] = "ret"]
            /\ UNCHANGED params
    /\ UNCHANGED <<data, is_connected, ncalls, disturbed, inst, method, query,
                   count_results, left, sliced, resp, results, outcomes, frame,
                   err, call, log, mine, stale, connection, projection>>

\* df = pd.DataFrame(self.__class__.data); return df
Return(t) ==
    /\ pc[t] = "ret"
    /\ frame' = [frame EXCEPT ![t] = Some(data)]
    /\ pc' = [pc EXCEPT ![t] = "done"]
    /\ UNCHANGED <<data, is_connected, ncalls, disturbed, inst, method, query,
                   params, count_results, left, sliced, resp, results,
                   outcomes, err, call, log, mine, stale, connection,
                   projection>>

(* ---------------------- select: the projection ------------------------ *)
\* the targets of a query
Star == [kind |-> "Star", name |-> <<>>]
Identifier(name) == [kind |-> "Identifier", name |-> name]
Constant == [kind |-> "Constant", name |-> <<>>]

\* the loop over query.targets: a Star empties the list and ends the loop,
\* an Identifier adds its last part, anything else raises
RECURSIVE TargetColumns(_, _)
TargetColumns(tgs, columns) ==
    IF tgs = <<>> THEN [raised |-> None, columns |-> columns]
    ELSE IF Head(tgs).kind = "Star"
         THEN [raised |-> None, columns |-> <<>>]
    ELSE IF Head(tgs).kind = "Identifier"
         THEN TargetColumns(Tail(tgs), Append(columns, Head(tgs).name))
    ELSE [raised |-> Some("NotImplementedError"), columns |-> columns]

\* get_columns()
GetColumns == <<ID, THREAD_ID, LABELS>> \o FILTERED_MESSAGE_HEADERS

\* [name.lower() for name in self.get_columns()]
LowerGetColumns == [j \in DOMAIN GetColumns |-> Lower(GetColumns[j])]

\* if len(columns) == 0: columns = self.get_columns()
\* columns = [name.lower() for name in columns]
LowerColumns(columns) ==
    IF Len(columns) = 0 THEN LowerGetColumns
    ELSE [j \in DOMAIN columns |-> Lower(columns[j])]

\* a row of the buffer as a dict: the one callback_get_details appended,
\* or an item of a list response that went into the buffer as it was (of
\* its keys only `id` is lower-case and among the names a target list here
\* can ask for)
AsDict(row) ==
    IF row.kind = "row"
    THEN row.headers @@ (BODY :> row.body) @@ (THREAD_ID :> row.threadId)
             @@ (LABELS :> row.labels) @@ (ID :> row.id)
    ELSE (ID :> row.id)

\* pd.DataFrame(data).columns: the keys of the rows
FrameColumns(rows) == UNION {DOMAIN AsDict(rows[i]) : i \in DOMAIN rows}

\* the cell of a frame's row under a column: NaN (None) when the row's dict
\* has no such key
Cell(row, col) ==
    IF col \in DOMAIN AsDict(row) THEN Some(AsDict(row)[col]) ELSE None

SymDiff(a, b) == (a \ b) \cup (b \ a)

\* faulty variant: every requested column is filled with None
AbsentColumnsAll(columns, present) == Range(columns)

\* set(columns) & set(result.columns) ^ set(columns); & binds tighter than ^
AbsentColumns(columns, present) ==
    SymDiff(Range(columns) \cap present, Range(columns))

\* lines 92-100: an empty frame gives the column headers without rows;
\* otherwise the absent columns are added as None and result[columns] takes
\* the columns by name, in the order of the list, as often as they are named
ProjectFrame(rows, columns) ==
    IF Len(rows) = 0 THEN [columns |-> columns, rows |-> <<>>]
    ELSE LET absent == AbsentColumns(columns, FrameColumns(rows))
         IN  [columns |-> columns,
              rows |-> [i \in DOMAIN rows |->
                           [j \in DOMAIN columns |->
                               IF columns[j] \in absent THEN None
                               ELSE Cell(rows[i], columns[j])]]]

\* select after call_gmail_api has returned: the targets give the columns,
\* the frame is projected on them and returned
Project(t, tg) ==
    /\ pc[t] = "done"
    /\ query[t] # None
    /\ targets[t] = None
    /\ targets' = [targets EXCEPT ![t] = Some(tg)]
    /\ LET tc == TargetColumns(tg, <<>>)
       IN  IF tc.raised # None
           THEN /\ Propagate(t, Val(tc.raised))
                /\ UNCHANGED output
           ELSE /\ output' =
                       [output EXCEPT
                           ![t] = Some(ProjectFrame(Val(frame[t]),
                                                    LowerColumns(tc.columns)))]
                /\ UNCHANGED <<data, is_connected, disturbed, pc, frame, err,
                               connection>>
    /\ UNCHANGED <<ncalls, inst, method, query, params, count_results, left,
                   sliced, resp, results, outcomes, call, log, mine, stale>>

(* ------------------------------ inputs --------------------------------- *)
Cond(op, arg1, arg2) == [op |-> op, arg1 |-> arg1, arg2 |-> arg2]
FOO == <<"f", "o", "o">>
AB == <<"A", ",", "B">>

\* WHERE clauses, as extract_comparison_conditions returns them: two that
\* select accepts, seven that it rejects (in the last two an "or" follows a
\* condition that is itself rejected)
GoodQueries ==
    { <<>>,
      <<Cond("=", LABEL_IDS, AB), Cond("=", Q, AB)>> }
BadQueries ==
    { <<Cond("or", Q, AB)>>,
      <<Cond(">", INCLUDE_SPAM_TRASH, AB)>>,
      <<Cond("=", FOO, AB)>>,
      <<Cond("=", Q, AB), Cond("or", FOO, AB)>>,
      <<Cond("=", Q, AB), Cond("<", LABEL_IDS, AB)>>,
      <<Cond("=", FOO, AB), Cond("or", Q, AB)>>,
      <<Cond(">", Q, AB), Cond("or", Q, AB)>> }

\* LIMIT / maxResults: absent, a small count, or more than one full page
Counts == {None} \cup {Some(c) : c \in 0 .. MaxCount}
              \cup {Some(max_page_size + 1)}

MethodNames == {"messages", "labels"}

\* the (WHERE, LIMIT) pairs of the selects: every count with the accepted
\* clauses, no LIMIT or LIMIT 1 with the rejected ones
Selects ==
    (GoodQueries \X Counts) \cup (BadQueries \X {None, Some(1)})

(* --------------------------- specifications ---------------------------- *)
\* the target lists of the selects: *, two columns, a column and a constant
SomeTargets ==
    { <<Star>>,
      <<Identifier(LABELS), Identifier(ID)>>,
      <<Identifier(LABELS), Constant>> }

\* the steps of an invocation after its entry
Fetch(t) ==
    \/ ConnectTest(t)
    \/ Build(t)
    \/ \E e \in BuildErrors : BuildError(t, e)
    \/ Reset(t)
    \/ LoopHead(t)
    \/ \E n \in 0 .. MaxPage, tok \in BOOLEAN : ListRequest(t, n, tok)
    \/ ListError(t)
    \/ BatchError(t)
    \/ \E d \in Details : Callback(t, d)
    \/ NextPage(t)
    \/ Return(t)
    \/ \E tg \in SomeTargets : Project(t, tg)

\* Spec: one caller on one handler; its invocations follow one another, a
\* select up to the frame it returns or the exception it raises
Next ==
    \/ \E s \in Selects : Select(1, 1, s[1], s[2])
    \/ \E m \in MethodNames, l \in Counts : NativeQuery(1, 1, m, l)
    \/ Fetch(1)

Spec == Init /\ [][Next]_vars

\* SpecFair: one invocation of one caller, which always takes its next
\* step while in flight: the interpreter runs the local statements, and
\* every remote call comes back, with a response or with an error
NextFair ==
    \/ \E s \in Selects : call[1] = 0 /\ Select(1, 1, s[1], s[2])
    \/ \E m \in MethodNames, l \in Counts :
           call[1] = 0 /\ NativeQuery(1, 1, m, l)
    \/ Fetch(1)

SpecFair == Init /\ [][NextFair]_vars /\ WF_vars(Fetch(1))

\* the inputs of the two-caller specifications: a WHERE clause that is
\* accepted and one that is rejected, counts of one and two, pages of one or
\* two items of which only the first carries a token, and details that
\* decode; the service can be built; each caller makes one invocation, a
\* select asks for the column id
SomeQueries == {<<>>, <<Cond("or", Q, AB)>>}
SomeCounts == {Some(1), Some(2)}
SomeSizes == {1, 2}
SomeDetails ==
    { [exception |-> None,
       payload |-> Some([body |-> Some(<<"Q", "U", "J", "D">>),
                         parts |-> None])] }

\* the steps of caller t on handler h in the two-caller specifications
Caller(t, h) ==
    \/ \E c \in SomeQueries, l \in SomeCounts :
           call[t] = 0 /\ Select(t, h, c, l)
    \/ \E l \in SomeCounts : call[t] = 0 /\ NativeQuery(t, h, "labels", l)
    \/ ConnectTest(t)
    \/ Build(t)
    \/ Reset(t)
    \/ LoopHead(t)
    \/ \E n \in SomeSizes, tok \in BOOLEAN :
           (tok => log[t] = <<>>) /\ ListRequest(t, n, tok)
    \/ ListError(t)
    \/ BatchError(t)
    \/ \E d \in SomeDetails : Callback(t, d)
    \/ NextPage(t)
    \/ Return(t)
    \/ Project(t, <<Identifier(ID)>>)

\* SpecShared: two callers use the same handler instance and their
\* invocations interleave
NextShared == \E t \in Threads : Caller(t, 1)

SpecShared == Init /\ [][NextShared]_vars

\* SpecTwo: two handler instances, each with its own caller, so that at most
\* one fetch is in flight per instance
NextTwo == \E t \in Threads : Caller(t, t)

SpecTwo == Init /\ [][NextTwo]_vars

\* the steps of a caller of check_connection or connect
Checker(c) ==
    \/ \E h \in Handlers : CheckConnection(c, h)
    \/ \E h \in Handlers : CallConnect(c, h)
    \/ CheckerTest(c)
    \/ CheckerBuild(c)
    \/ \E e \in BuildErrors : CheckerBuildError(c, e)
    \/ \E o \in ProfileOutcomes : GetProfile(c, o)

\* SpecConnect: two callers of check_connection or connect on either
\* handler instance and one native_query on instance 1, which lists labels
\* one page at a time; their steps interleave
NextConnect ==
    \/ \E c \in Checkers : Checker(c)
    \/ call[1] = 0 /\ NativeQuery(1, 1, "labels", Some(1))
    \/ ConnectTest(1)
    \/ Build(1)
    \/ \E e \in BuildErrors : BuildError(1, e)
    \/ Reset(1)
    \/ LoopHead(1)
    \/ \E n \in 0 .. 1 : ListRequest(1, n, FALSE)
    \/ ListError(1)
    \/ NextPage(1)
    \/ Return(1)

SpecConnect == Init /\ [][NextConnect]_vars

\* target lists: *, none, [to, subject, to], [threadId], [To, x_feedback_id,
\* body], [id, *], [labels, a constant]
TargetLists ==
    { <<Star>>,
      <<>>,
      <<Identifier(TO), Identifier(SUBJECT), Identifier(TO)>>,
      <<Identifier(THREAD_ID)>>,
      <<Identifier(H_TO), Identifier(X_FEEDBACK_ID), Identifier(BODY)>>,
      <<Identifier(ID), Star>>,
      <<Identifier(LABELS), Constant>> }

\* SpecSelect: one select without a WHERE clause over the remote's mailbox:
\* every detail request is answered with the stored message or fails, and
\* the frame that call_gmail_api returns is projected on the targets
NextSelect ==
    \/ \E l \in {None} \cup SomeCounts : call[1] = 0 /\ Select(1, 1, <<>>, l)
    \/ ConnectTest(1)
    \/ Build(1)
    \/ Reset(1)
    \/ LoopHead(1)
    \/ \E n \in 0 .. MaxPage, tok \in BOOLEAN : ListRequest(1, n, tok)
    \/ ListError(1)
    \/ BatchError(1)
    \/ \E e \in {None, Some("HttpError")} :
           /\ pc[1] = "batch"
           /\ Callback(1, Delivered(results[1][Len(outcomes[1]) + 1].id, e))
    \/ NextPage(1)
    \/ Return(1)
    \/ \E tg \in TargetLists : Project(1, tg)

SpecSelect == Init /\ [][NextSelect]_vars

(* ============================== claims ================================= *)
Last(s) == s[Len(s)]
Count(seq, P(_)) == Cardinality({i \in DOMAIN seq : P(seq[i])})
Rows(t) == Val(frame[t])
Requested(t) == Val(count_results[t])

\* rows of the invocation's k-th page among rows
PageRows(rows, k) == Count(rows, LAMBDA r : r.id[2] = k)

(* ------------------------------- C1 ------------------------------------ *)
\* C1: with a requested count N >= 0 and one fetch at a time, the buffer
\* never holds more than N rows while the fetch runs, whatever the remote
\* returns; `left` is never negative and the returned frame has at most N
\* rows.
C1_BufferWithinCount ==
    \A t \in Threads :
        (count_results[t] # None /\ Requested(t) >= 0) =>
            /\ InFlight(t) => Len(data) <= Requested(t)
            /\ left[t] # None => Val(left[t]) >= 0
            /\ frame[t] # None => Len(Rows(t)) <= Requested(t)

\* a fetch of one row has returned after the remote sent a page of two
C1_Witness ==
    /\ pc[1] = "done"
    /\ count_results[1] = Some(1)
    /\ resp[1].n = 2
    /\ Len(Rows(1)) = 1

(* ------------------------------- C2 ------------------------------------ *)
\* every response so far carried p items and a next-page token
UniformPages(t, p) ==
    \A k \in DOMAIN log[t] :
        ~log[t][k].raised /\ log[t][k].n = p /\ log[t][k].tok # None

\* every item handed to the batch so far produced a row
AllDetailsSucceeded(t) ==
    \A k \in DOMAIN log[t] :
        PageRows(mine[t], k) =
            Min(log[t][k].n, Val(log[t][k].params.maxResults))

CeilDiv(n, p) == (n + p - 1) \div p

\* C2: with a requested count N, pages of p >= 1 items that all carry a
\* next-page token and details that all succeed, the fetch returns exactly N
\* rows after exactly ceil(N/p) list requests; no list request is issued
\* once the buffer holds N rows.
C2_StopsAtCount ==
    \A t \in Threads :
        count_results[t] # None =>
            /\ pc[t] = "list" => Len(data) < Requested(t)
            /\ \A p \in 1 .. MaxPage :
                   (pc[t] = "done" /\ UniformPages(t, p)
                        /\ AllDetailsSucceeded(t)) =>
                       /\ Len(Rows(t)) = Requested(t)
                       /\ Len(log[t]) = CeilDiv(Requested(t), p)

\* two rows were asked for and came in two pages of one item each
C2_Witness ==
    /\ pc[1] = "done"
    /\ count_results[1] = Some(2)
    /\ UniformPages(1, 1)
    /\ AllDetailsSucceeded(1)
    /\ Len(log[1]) = 2
    /\ Len(Rows(1)) = 2

(* ------------------------------- C3 ------------------------------------ *)
\* C3: a fetch without a requested count returns the items of every page:
\* it follows the next-page tokens until a response carries none, so when it
\* returns the last response carried no token.
C3_FetchAllFollowsTokens ==
    \A t \in Threads :
        (pc[t] = "done" /\ count_results[t] = None) => resp[t].tok = None

(* ------------------------------- C4 ------------------------------------ *)
Exceptions(t) == Count(outcomes[t], LAMBDA o : o = "exception")

\* C4: of a page of N message items whose batch reports an exception for k
\* of them, exactly N - k rows are put in the buffer, each item gets one
\* callback (no retry), and an item's exception never aborts the fetch: it
\* reaches the next-page decision (a fetch that raised before the select
\* looked at its targets did so for another reason).
C4_ExceptionsAreSkipped ==
    \A t \in Threads :
        /\ (pc[t] = "next" /\ outcomes[t] # <<>>) =>
               /\ Len(outcomes[t]) = Len(results[t])
               /\ PageRows(data, Len(log[t])) = Len(results[t]) - Exceptions(t)
        /\ (pc[t] = "batch") =>
               PageRows(data, Len(log[t])) = Len(outcomes[t]) - Exceptions(t)
        /\ (pc[t] = "raised" /\ targets[t] = None /\ outcomes[t] # <<>>
                /\ Last(outcomes[t]) = "exception") => Last(log[t]).raised

\* a page of two messages: the first detail request failed, the second
\* gave a row, and the fetch is at its next-page decision
C4_Witness ==
    /\ pc[1] = "next"
    /\ Len(results[1]) = 2
    /\ outcomes[1] = <<"exception", "response">>
    /\ PageRows(data, Len(log[1])) = 1

(* ------------------------------- C5 ------------------------------------ *)
DecodeErrors == {Some("binascii.Error"), Some("KeyError")}

\* C5: a payload that cannot be decoded costs only its own row: the fetch is
\* never aborted by a decode failure.
C5_DecodeFailureIsolated ==
    \A t \in Threads : ~(pc[t] = "raised" /\ err[t] \in DecodeErrors)

(* ------------------------------- C6 ------------------------------------ *)
\* C6: a list or batch call that fails on page k makes the fetch raise at
\* once: no frame is returned, the buffer keeps exactly the rows of pages
\* 1..k-1, and the fetch issues no further request.
C6_TransportErrorAborts ==
    /\ [](\A t \in Threads :
            (pc[t] = "raised" /\ err[t] = Some("HttpError")) =>
                /\ frame[t] = None
                /\ data = mine[t]
                /\ \A i \in DOMAIN data : data[i].id[2] < Len(log[t]))
    /\ [][\A t \in Threads :
            /\ (pc[t] \in {"list", "batch"} /\ pc'[t] = "raised"
                    /\ err'[t] = Some("HttpError")) => data' = data
            /\ (pc[t] = "raised" /\ call'[t] = call[t]) =>
                   (pc'[t] = "raised" /\ log'[t] = log[t] /\ data' = data)]_vars

\* the second list request failed; the row of the first page is still there
C6_Witness ==
    /\ pc[1] = "raised"
    /\ err[1] = Some("HttpError")
    /\ Len(log[1]) = 2
    /\ log[1][2].raised
    /\ Len(data) = 1

(* ------------------------------- C7 ------------------------------------ *)
\* C7: fetches that do not overlap never see each other's rows: the buffer
\* is empty when a fetch issues its first list request, and the frame it
\* returns holds only rows of its own pages.
C7_NoLeakAcrossFetches ==
    \A t \in Threads :
        /\ (pc[t] = "list" /\ log[t] = <<>>) => data = <<>>
        /\ pc[t] = "done" =>
               /\ Rows(t) = mine[t]
               /\ \A i \in DOMAIN Rows(t) : Rows(t)[i].id[1] = call[t]

\* a fetch returned rows although the buffer still held the rows of an
\* aborted fetch when it began
C7_Witness ==
    /\ pc[1] = "done"
    /\ stale[1] = "aborted"
    /\ Len(Rows(1)) > 0

(* ------------------------------- C8 ------------------------------------ *)
\* the frame holds a row of another invocation
Foreign(t) == \E i \in DOMAIN Rows(t) : Rows(t)[i].id[1] # call[t]

\* a row the invocation put in the buffer is not in its frame
LacksOwn(t) ==
    \E i \in DOMAIN mine[t] :
        \A j \in DOMAIN Rows(t) : Rows(t)[j] # mine[t][i]

\* the frame has more rows than were asked for
Exceeds(t) == count_results[t] # None /\ Len(Rows(t)) > Requested(t)

Corrupted(t) == pc[t] = "done" /\ (Foreign(t) \/ LacksOwn(t) \/ Exceeds(t))

\* C8: two fetches interleaved on one handler instance corrupt each other's
\* result through the shared buffer: a frame with foreign rows, without
\* some of its own rows, or longer than asked is returned, and only by a
\* fetch during which the other invocation changed the buffer.
C8_CorruptedOnlyByInterleaving ==
    \A t \in Threads : Corrupted(t) => disturbed[t]

\* caller 1 asked for one row and got back a frame of two rows of caller 2,
\* its own row gone
C8_Witness ==
    /\ pc[1] = "done"
    /\ inst[1] = inst[2]
    /\ count_results[1] = Some(1)
    /\ mine[1] # <<>>
    /\ Foreign(1) /\ LacksOwn(1) /\ Exceeds(1)

(* ------------------------------- C9 ------------------------------------ *)
\* C9: fetches running on two distinct handler instances, one per instance,
\* never change each other's buffer and each returns only its own rows.
C9_InstancesIsolated ==
    \A t \in Threads :
        (\A u \in Threads \ {t} : call[u] = 0 \/ inst[u] # inst[t]) =>
            /\ ~disturbed[t]
            /\ pc[t] = "done" => (Rows(t) = mine[t] /\ ~Foreign(t))

(* ------------------------------- C10 ----------------------------------- *)
\* the WHERE clause has an "or", an unsupported left operand, or an operator
\* other than "=" on a supported operand
Unsupported(conditions) ==
    \E i \in DOMAIN conditions :
        \/ conditions[i].op = "or"
        \/ conditions[i].arg1 \notin SupportedClauses
        \/ conditions[i].op # "="

Rejected(q) == q # None /\ Unsupported(Val(q))

\* C10: a select with an unsupported WHERE clause raises before any remote
\* call: no list or batch request, no frame, the buffer and the connection
\* untouched.
C10_RejectedBeforeAnyCall ==
    /\ [](\A t \in Threads :
            Rejected(query[t]) =>
                (pc[t] = "raised" /\ log[t] = <<>> /\ frame[t] = None))
    /\ [][\A t \in Threads :
            (call'[t] # call[t] /\ Rejected(query'[t])) =>
                (data' = data /\ is_connected' = is_connected)]_vars

\* a select with a non-equality operator was rejected while the buffer held
\* the rows of the fetch before it
C10_Witness ==
    /\ pc[1] = "raised"
    /\ query[1] = Some(<<Cond(">", INCLUDE_SPAM_TRASH, AB)>>)
    /\ err[1] = Some("Unknown operator")
    /\ data # <<>>

(* ------------------------------- C11 ----------------------------------- *)
\* the WHERE clause has an "or" condition at some position
HasOr(q) == q # None /\ \E i \in DOMAIN Val(q) : Val(q)[i].op = "or"

\* C11: every condition list with an "or" at any position is rejected with
\* the OR-not-supported error, whatever the other conditions are: the "or"
\* check comes before the unknown-clause and unknown-operator checks of
\* every condition.
C11_OrTakesPrecedence ==
    \A t \in Threads :
        HasOr(query[t]) =>
            (pc[t] = "raised" /\ err[t] = Some("OR is not supported"))

(* ------------------------------- C15 ----------------------------------- *)
\* C15: with a requested count N every list request carries maxResults =
\* min(N - buffer size, 500) as measured at that iteration, hence a value
\* between 1 and 500, and every list request carries userId = "me".
C15_PageSizeAndUser ==
    /\ [](\A t \in Threads : \A k \in DOMAIN log[t] :
            /\ log[t][k].params.userId = Some("me")
            /\ count_results[t] # None =>
                   /\ log[t][k].params.maxResults # None
                   /\ Val(log[t][k].params.maxResults) \in 1 .. max_page_size)
    /\ [][\A t \in Threads :
            (Len(log'[t]) = Len(log[t]) + 1 /\ count_results[t] # None) =>
                Last(log'[t]).params.maxResults =
                    Some(Min(Requested(t) - Len(data), max_page_size))]_vars

\* 501 rows were asked for: the first request asked for 500 (the cap), the
\* second, with one row in the buffer, for the 500 that remained
C15_Witness ==
    /\ count_results[1] = Some(max_page_size + 1)
    /\ Len(log[1]) = 2
    /\ log[1][1].params.maxResults = Some(max_page_size)
    /\ log[1][2].params.maxResults = Some(max_page_size)
    /\ Len(mine[1]) = 1

(* ------------------------------- C16 ----------------------------------- *)
\* the rows are in the order of their pages and of their place in the page
InPageOrder(rows) ==
    \A i, j \in DOMAIN rows :
        i < j => \/ rows[i].id[2] < rows[j].id[2]
                 \/ /\ rows[i].id[2] = rows[j].id[2]
                    /\ rows[i].id[3] < rows[j].id[3]

\* C16: when a page has more items than `remaining`, only its first
\* `remaining` items, in the page's order, are hydrated or appended; the
\* rest of the page is discarded.
C16_SurplusTailDiscarded ==
    \A t \in Threads :
        count_results[t] # None =>
            /\ pc[t] \in {"batch", "next"} =>
                   LET k == Len(log[t])
                       sent == Items(call[t], k, resp[t].n)
                   IN  /\ Len(results[t]) = Min(resp[t].n, Val(left[t]))
                       /\ \A i \in DOMAIN results[t] : results[t][i] = sent[i]
            /\ \A i \in DOMAIN mine[t] :
                   mine[t][i].id[3] <=
                       Val(log[t][mine[t][i].id[2]].params.maxResults)
            /\ InPageOrder(mine[t])

\* one row was asked for, the page had two items: the first was hydrated
\* and is the only row, the second was dropped
C16_Witness ==
    /\ pc[1] = "next"
    /\ count_results[1] = Some(1)
    /\ resp[1].n = 2
    /\ Len(results[1]) = 1
    /\ Len(data) = 1
    /\ data[1].id = <<call[1], 1, 1>>

(* ------------------------------- C17 ----------------------------------- *)
\* C17 (an invocation has its count_results once userId is in its params):
\* without a requested count the fetcher never sets the page size and
\* issues exactly one list request, token or not; with a requested count
\* every list request after the first carries the token of the response
\* before it, and no request follows a response without a token.
C17_TokenFollowedOnlyWithCount ==
    \A t \in Threads :
        /\ (params[t].userId # None /\ count_results[t] = None) =>
               /\ Len(log[t]) <= 1
               /\ params[t].maxResults = None
               /\ \A k \in DOMAIN log[t] : log[t][k].params.maxResults = None
               /\ pc[t] = "done" => Len(log[t]) = 1
        /\ \A k \in DOMAIN log[t] :
               IF k = 1 THEN log[t][k].params.pageToken = None
               ELSE /\ log[t][k - 1].tok # None
                    /\ log[t][k].params.pageToken = log[t][k - 1].tok

\* two rows were asked for: the second request carried the token of the
\* first response, the second response had no token and the fetch returned
\* with one row
C17_Witness ==
    /\ pc[1] = "done"
    /\ count_results[1] = Some(2)
    /\ Len(log[1]) = 2
    /\ log[1][1].tok = Some(1)
    /\ log[1][2].params.pageToken = Some(1)
    /\ log[1][2].tok = None
    /\ Len(Rows(1)) = 1

(* ------------------------------- C14 ----------------------------------- *)
\* C14: check_connection does not let an HttpError of the profile request
\* out: it returns a failed status with an error message; whenever it
\* returns, is_connected is true exactly when the status is success; and a
\* connect that finds the handler connected goes on with the service the
\* handler has, building none.
C14_CheckConnectionStatus ==
    /\ [][\A h \in Handlers :
            status'[h] # status[h] =>
                LET r == Val(status'[h])
                IN  /\ r.raised # Some("HttpError")
                    /\ r.profile = "HttpError" =>
                           /\ r.returned /\ ~r.success
                           /\ r.error_message # None
                    /\ r.returned => (is_connected'[h] <=> r.success)]_vars
    /\ [][/\ \A t \in Threads :
               (pc[t] = "connect" /\ pc'[t] # pc[t]
                    /\ is_connected[inst[t]]) =>
                   (pc'[t] = "reset" /\ service' = service)
          /\ \A c \in Checkers :
               (checking[c].pc = "connect" /\ checking'[c] # checking[c]
                    /\ is_connected[checking[c].inst]) =>
                   (checking'[c].pc \in {"profile", "idle"}
                        /\ service' = service)]_vars

(* ------------------------------- C19 ----------------------------------- *)
\* C19: a fetch that is not interleaved with another terminates, returning
\* a frame or raising, when every remote call returns and only finitely
\* many responses carry a token; with a requested count N no list request
\* is issued once the buffer holds N rows or a response came without a
\* token, and after a response with a token the next list request is
\* issued as long as the buffer holds fewer than N rows, also when the page
\* gave no row.
C19_FetchTerminates ==
    /\ \A t \in Threads : InFlight(t) ~> Idle(t)
    /\ [](\A t \in Threads :
            (pc[t] = "list" /\ count_results[t] # None) =>
                /\ Len(data) < Requested(t)
                /\ log[t] # <<>> => Last(log[t]).tok # None)
    /\ [][\A t \in Threads :
            (count_results[t] # None /\ Len(data) < Requested(t)
                 /\ pc'[t] # pc[t]) =>
                /\ (pc[t] = "next" /\ resp[t].tok # None) => pc'[t] = "head"
                /\ pc[t] = "head" => pc'[t] = "list"]_vars

\* two rows were asked for: the first page was empty, the only item of the
\* second gave no row, both came with a token; a third request followed and
\* the fetch returned
C19_Witness ==
    /\ pc[1] = "done"
    /\ count_results[1] = Some(2)
    /\ Len(log[1]) = 3
    /\ log[1][1].n = 0 /\ log[1][1].tok # None
    /\ log[1][2].n = 1 /\ log[1][2].tok # None
    /\ PageRows(mine[1], 2) = 0
    /\ log[1][3].tok = None

(* ------------------------------- C12 ----------------------------------- *)
\* the select has returned its frame
Selected(t) == output[t] # None /\ frame[t] # None
Out(t) == Val(output[t])

\* C12: `*`, or no target at all, over an empty fetch result gives a frame
\* without rows whose column headers are id, threadId, labels and the
\* eleven allow-listed header names, in that order.
C12_DefaultColumnsOnEmpty ==
    \A t \in Threads :
        (Selected(t) /\ Rows(t) = <<>> /\ Val(targets[t]) \in {<<Star>>, <<>>})
            => /\ Out(t).rows = <<>>
               /\ Out(t).columns = GetColumns

(* ------------------------------- C13 ----------------------------------- *)
\* the targets are identifiers only, at least one
Explicit(tgs) ==
    tgs # <<>> /\ \A j \in DOMAIN tgs : tgs[j].kind = "Identifier"

\* C13: over a frame with rows, an explicit column list gives exactly the
\* lower-cased requested names, in the requested order, duplicates kept; a
\* column is all None if and only if the frame did not have it, and a
\* column the frame had keeps the fetched values row by row.
C13_ProjectionKeepsOrderAndValues ==
    \A t \in Threads :
        (Selected(t) /\ Rows(t) # <<>> /\ Explicit(Val(targets[t]))) =>
            LET tgs == Val(targets[t])
                had == FrameColumns(Rows(t))
            IN  /\ Len(Out(t).columns) = Len(tgs)
                /\ \A j \in DOMAIN tgs :
                       Out(t).columns[j] = Lower(tgs[j].name)
                /\ Len(Out(t).rows) = Len(Rows(t))
                /\ \A i \in DOMAIN Rows(t) : \A j \in DOMAIN tgs :
                       LET col == Lower(tgs[j].name)
                       IN  IF col \in had
                           THEN Out(t).rows[i][j] = Cell(Rows(t)[i], col)
                           ELSE Out(t).rows[i][j] = None
                /\ \A j \in DOMAIN tgs :
                       Lower(tgs[j].name) \in had =>
                           \E i \in DOMAIN Rows(t) : Out(t).rows[i][j] # None

\* [to, subject, to] over two messages: the first has both headers, the
\* second only `to`, so its subject is None; `to` is there twice
C13_Witness ==
    /\ Selected(1)
    /\ Len(Rows(1)) = 2
    /\ Val(targets[1]) =
           <<Identifier(TO), Identifier(SUBJECT), Identifier(TO)>>
    /\ Out(1).columns = <<TO, SUBJECT, TO>>
    /\ Out(1).rows[1] = <<Some(V1), Some(V2), Some(V1)>>
    /\ Out(1).rows[2] = <<Some(V3), None, Some(V3)>>

(* ------------------------------- C18 ----------------------------------- *)
\* the data of a part, the empty string if it has none
PartData(part) == IF part = None THEN <<>> ELSE Val(part)

\* body data if the body has it, else the parts' data from the last part to
\* the first
ReversedParts(payload) ==
    IF payload.body # None THEN Val(payload.body)
    ELSE LET parts == Val(payload.parts)
             n == Len(parts)
         IN  Concat([j \in 1 .. n |-> PartData(parts[n + 1 - j])])

\* C18: the string that goes to URL-safe base64 decoding is the body's own
\* data when the body has it, whatever the parts hold; otherwise it is
\* dn + ... + d2 + d1 for the parts' data d1 .. dn, a part without data
\* counting as the empty string.
C18_PartsInReverseOrder ==
    \A i \in DOMAIN data :
        data[i].kind = "row" =>
            Concat(data[i].body) = ReversedParts(StoredPayload(data[i].id))

\* the buffer holds the row of the message of three parts whose second
\* part has no data: the third part's data came first, then the first's
C18_Witness ==
    \E i \in DOMAIN data :
        /\ StoredPayload(data[i].id).parts = Some(<<Some(D1), None, Some(D2)>>)
        /\ Concat(data[i].body) = D2 \o D1

(* ------------------------------- C20 ----------------------------------- *)
\* the targets are * or name threadId
WantsThreadId(tgs) ==
    \/ tgs = <<Star>>
    \/ Explicit(tgs) /\ \E j \in DOMAIN tgs : tgs[j].name = THREAD_ID

\* C20: a SELECT * or a SELECT naming threadId over a fetch result with rows
\* has a thread-id column, which holds in every row the thread id of the
\* fetched message and never None; the id and labels columns likewise hold
\* the fetched values.
C20_ThreadIdCarried ==
    \A t \in Threads :
        (Selected(t) /\ Rows(t) # <<>> /\ WantsThreadId(Val(targets[t]))) =>
            /\ \E j \in DOMAIN Out(t).columns :
                   Lower(Out(t).columns[j]) = Lower(THREAD_ID)
            /\ \A i \in DOMAIN Rows(t) : \A j \in DOMAIN Out(t).columns :
                   /\ Lower(Out(t).columns[j]) = Lower(THREAD_ID) =>
                          Out(t).rows[i][j] =
                              Some(Stored(Rows(t)[i].id).threadId)
                   /\ Out(t).columns[j] = ID =>
                          Out(t).rows[i][j] = Some(Rows(t)[i].id)
                   /\ Out(t).columns[j] = LABELS =>
                          Out(t).rows[i][j] =
                              Some(JoinLabels(Stored(Rows(t)[i].id).labelIds))

====
